---- MODULE Spec2Model ----
(***************************************************************************)
(* Delhi AQI dashboard: the spatial interpolation and point-query engine   *)
(* of backend/krigging.py.                                                 *)
(*                                                                         *)
(* Coordinates are integers.  Geographic coordinates (lon, lat) are in     *)
(* grid units; the projection to planar (UTM) metres is an affine map with *)
(* different scales on the two axes and a false easting, and its inverse   *)
(* divides.  Floating point values are records [nan, v]: NaN or a number.  *)
(*                                                                         *)
(* Third-party calls are modelled by their contract:                       *)
(*   shapely  polygon.contains(Point)  - the point is in the interior      *)
(*   scipy    cKDTree.query(q, k=1)    - an index at minimum distance      *)
(*   pykrige  OrdinaryKriging/execute  - raises, or returns one finite     *)
(*            prediction per site, which with exact_values (the default)   *)
(*            equals the observation at a site where a station lies; the   *)
(*            library is deterministic, so its answer for the inputs of a  *)
(*            behaviour is fixed in the variable solver.                   *)
(***************************************************************************)
EXTENDS Integers, Sequences, FiniteSets, TLC

VARIABLES
    df,          \* the station batch: a sequence of [lat, lon, aqi]
    polygon,     \* the region polygon: a sequence of <<lon, lat>> vertices
    resolution,  \* grid sites per axis
    solver,      \* what pykrige answers for these inputs
    pc,          \* position in perform_kriging_correct
    steps,       \* the steps of the current call, in order
    xs, ys,      \* projected station coordinates
    x_grid, y_grid,
    z,           \* prediction array (rows of floats)
    lon_grid, lat_grid,
    out,         \* the returned (lon_grid, lat_grid, z_masked), <<>> if none
    err,         \* the exception that left the call, "" if none
    runNo,       \* 1 for the first call, 2 for the repeated one
    prev,        \* outcome of the first call, once it is repeated
    qry,         \* the last point query: its coordinate
    qres,        \* the last point query: its result
    thr,         \* concurrent point queries: per thread its position and locals
    treeBuilds,  \* how many times a cKDTree was built over the returned grid
    apc,         \* position of the dashboard script in its current run
    scriptRuns,  \* how many times the script has run in this session
    batch,       \* what fetch_live_data last returned (index in AppBatches)
    oracle,      \* what pykrige answers per station batch
    heap,        \* the arrays allocated so far: [val, run, batch]
    kriging_output,  \* st.session_state["kriging_output"]: three array ids
    kriging_data,    \* the triple the alert tab holds
    answer,      \* the last point query of the alert tab
    agentPc,     \* position in run_agent
    aqi_value,   \* run_agent's AQI argument
    conditions_list,  \* run_agent's list of health conditions
    forecast,    \* run_agent's forecast argument
    rec,         \* the recommendation: a dictionary as a record
    trend,       \* the trend advice
    ctx,         \* the Delhi context
    agentErr     \* the exception that left run_agent, "" if none

vars == <<df, polygon, resolution, solver, pc, steps, xs, ys, x_grid, y_grid,
          z, lon_grid, lat_grid, out, err, runNo, prev, qry, qres,
          thr, treeBuilds, apc, scriptRuns, batch, oracle, heap,
          kriging_output, kriging_data, answer,
          agentPc, aqi_value, conditions_list, forecast, rec, trend, ctx,
          agentErr>>

\* the state of the dashboard session
appVars == <<apc, scriptRuns, batch, oracle, heap, kriging_output,
             kriging_data, answer>>

\* the state of one run_agent call
agentVars == <<agentPc, aqi_value, conditions_list, forecast, rec, trend, ctx,
               agentErr>>

\* what perform_kriging_correct and the sequential query never touch
extVars == <<thr, treeBuilds, appVars, agentVars>>

(***************************************************************************)
(* Bounds of the model.                                                    *)
(***************************************************************************)
MaxStations == 3
MaxRuns == 2
MaxResolution == 3
MaxThreads == 2
MaxScriptRuns == 3
MaxConditions == 2
MaxAQI == 500

(***************************************************************************)
(* Floating point values.                                                  *)
(***************************************************************************)
NaN == [nan |-> TRUE, v |-> 0]
Num(n) == [nan |-> FALSE, v |-> n]
IsNaN(f) == f.nan

Min(a, b) == IF a <= b THEN a ELSE b
Max(a, b) == IF a >= b THEN a ELSE b

(***************************************************************************)
(* 1. Coordinate transformers (geographic <-> planar metres).              *)
(***************************************************************************)
transformer_to_utm(lon, lat) == <<2 * lon + 5, 3 * lat>>
transformer_to_latlon(x, y) == <<(x - 5) \div 2, y \div 3>>

(***************************************************************************)
(* numpy helpers.                                                          *)
(***************************************************************************)
Linspace(a, b, n) ==
    [i \in 1..n |-> IF n = 1 THEN a ELSE a + ((i - 1) * (b - a)) \div (n - 1)]

\* np.meshgrid(x, y): Len(y) rows, Len(x) columns
MeshX(x, y) == [r \in 1..Len(y) |-> x]
MeshY(x, y) == [r \in 1..Len(y) |-> [c \in 1..Len(x) |-> y[r]]]

Cols(g) == IF Len(g) = 0 THEN 0 ELSE Len(g[1])

\* ndarray.flatten(): row-major
Flatten(g) ==
    [k \in 1..(Len(g) * Cols(g)) |->
        g[((k - 1) \div Cols(g)) + 1][((k - 1) % Cols(g)) + 1]]

\* boolean-mask indexing a[mask]: the kept indices, in order
RECURSIVE KeptIndices(_, _)
KeptIndices(mask, k) ==
    IF k > Len(mask) THEN <<>>
    ELSE (IF mask[k] THEN <<k>> ELSE <<>>) \o KeptIndices(mask, k + 1)

MaskSelect(a, mask) ==
    LET idx == KeptIndices(mask, 1) IN [j \in 1..Len(idx) |-> a[idx[j]]]

\* np.clip on one value: NaN stays NaN
ClipValue(f, lo, hi) == IF IsNaN(f) THEN f ELSE Num(Max(lo, Min(hi, f.v)))

(***************************************************************************)
(* shapely: where a point lies relative to a polygon (a ring of <<lon,     *)
(* lat>> vertices, implicitly closed), by ray casting in integers.         *)
(***************************************************************************)
NextVertex(poly, i) == poly[(i % Len(poly)) + 1]

Cross(a, b, q) ==
    (b[1] - a[1]) * (q[2] - a[2]) - (b[2] - a[2]) * (q[1] - a[1])

OnSegment(a, b, q) ==
    /\ Cross(a, b, q) = 0
    /\ Min(a[1], b[1]) <= q[1] /\ q[1] <= Max(a[1], b[1])
    /\ Min(a[2], b[2]) <= q[2] /\ q[2] <= Max(a[2], b[2])

\* the edge a-b crosses the horizontal ray from q towards +lon
EdgeCrosses(a, b, q) ==
    /\ (a[2] > q[2]) # (b[2] > q[2])
    /\ IF b[2] > a[2] THEN Cross(a, b, q) > 0 ELSE Cross(a, b, q) < 0

OnBoundary(poly, q) ==
    \E i \in 1..Len(poly) : OnSegment(poly[i], NextVertex(poly, i), q)

Crossings(poly, q) ==
    Cardinality({i \in 1..Len(poly) : EdgeCrosses(poly[i], NextVertex(poly, i), q)})

Locate(poly, q) ==
    IF OnBoundary(poly, q) THEN "boundary"
    ELSE IF Crossings(poly, q) % 2 = 1 THEN "interior"
    ELSE "exterior"

\* polygon.contains(Point(lon, lat)): true for interior points only
PolygonContains(poly, lon, lat) == Locate(poly, <<lon, lat>>) = "interior"

(***************************************************************************)
(* 2. generate_utm_grid                                                    *)
(***************************************************************************)
\* mutant: the northing axis sampled with one point more
generate_utm_grid_short(lat_min, lat_max, lon_min, lon_max, res) ==
    LET lo == transformer_to_utm(lon_min, lat_min)
        hi == transformer_to_utm(lon_max, lat_max)
        x == Linspace(lo[1], hi[1], res)
        y == Linspace(lo[2], hi[2], res + 1)
    IN  <<MeshX(x, y), MeshY(x, y)>>

generate_utm_grid(lat_min, lat_max, lon_min, lon_max, res) ==
    LET lo == transformer_to_utm(lon_min, lat_min)
        hi == transformer_to_utm(lon_max, lat_max)
        x == Linspace(lo[1], hi[1], res)
        y == Linspace(lo[2], hi[2], res)
    IN  <<MeshX(x, y), MeshY(x, y)>>

\* mutant: the point built as Point(lat, lon)
mask_grid_swapped(lon_g, lat_g, poly) ==
    [r \in 1..Len(lon_g) |->
        [c \in 1..Len(lon_g[r]) |->
            PolygonContains(poly, lat_g[r][c], lon_g[r][c])]]

(***************************************************************************)
(* 3. mask_grid_with_polygon: TRUE for the cells inside the polygon        *)
(***************************************************************************)
mask_grid_with_polygon(lon_g, lat_g, poly) ==
    [r \in 1..Len(lon_g) |->
        [c \in 1..Len(lon_g[r]) |->
            PolygonContains(poly, lon_g[r][c], lat_g[r][c])]]

(***************************************************************************)
(* 4. get_nearest_kriging_value.  The result of a call is a record         *)
(* [raised, value]; the operator gives the set of results the call can     *)
(* have (several when the query is equally near to more than one site).    *)
(***************************************************************************)
Dist2(p, q) == (p[1] - q[1]) * (p[1] - q[1]) + (p[2] - q[2]) * (p[2] - q[2])

\* cKDTree(pts).query(q, k=1): the indices at minimum distance from q
cKDTreeQuery(pts, q) ==
    {i \in 1..Len(pts) : \A j \in 1..Len(pts) : Dist2(pts[i], q) <= Dist2(pts[j], q)}

\* mutant: the index of the tree applied to the unfiltered array
nearest_value_unfiltered_index(user_lat, user_lon, lat_g, lon_g, zz) ==
    LET flat_lat == Flatten(lat_g)
        flat_lon == Flatten(lon_g)
        flat_z == Flatten(zz)
        valid_mask == [k \in 1..Len(flat_z) |-> ~IsNaN(flat_z[k])]
        valid_lats == MaskSelect(flat_lat, valid_mask)
        valid_lons == MaskSelect(flat_lon, valid_mask)
        valid_z == MaskSelect(flat_z, valid_mask)
        pts == [j \in 1..Len(valid_lats) |-> <<valid_lats[j], valid_lons[j]>>]
    IN  IF Len(valid_z) = 0
        THEN {[raised |-> FALSE, value |-> NaN]}
        ELSE {[raised |-> FALSE, value |-> flat_z[idx]] :
                idx \in cKDTreeQuery(pts, <<user_lat, user_lon>>)}

\* mutant: no check for an empty set of valid sites; indexing the empty
\* array with the tree's answer raises
nearest_value_unguarded(user_lat, user_lon, lat_g, lon_g, zz) ==
    LET flat_lat == Flatten(lat_g)
        flat_lon == Flatten(lon_g)
        flat_z == Flatten(zz)
        valid_mask == [k \in 1..Len(flat_z) |-> ~IsNaN(flat_z[k])]
        valid_lats == MaskSelect(flat_lat, valid_mask)
        valid_lons == MaskSelect(flat_lon, valid_mask)
        valid_z == MaskSelect(flat_z, valid_mask)
        pts == [j \in 1..Len(valid_lats) |-> <<valid_lats[j], valid_lons[j]>>]
    IN  IF Len(valid_z) = 0
        THEN {[raised |-> TRUE, value |-> NaN]}
        ELSE {[raised |-> FALSE, value |-> valid_z[idx]] :
                idx \in cKDTreeQuery(pts, <<user_lat, user_lon>>)}

get_nearest_kriging_value(user_lat, user_lon, lat_g, lon_g, zz) ==
    LET flat_lat == Flatten(lat_g)
        flat_lon == Flatten(lon_g)
        flat_z == Flatten(zz)
        valid_mask == [k \in 1..Len(flat_z) |-> ~IsNaN(flat_z[k])]
        valid_lats == MaskSelect(flat_lat, valid_mask)
        valid_lons == MaskSelect(flat_lon, valid_mask)
        valid_z == MaskSelect(flat_z, valid_mask)
        pts == [j \in 1..Len(valid_lats) |-> <<valid_lats[j], valid_lons[j]>>]
    IN  IF Len(valid_z) = 0
        THEN {[raised |-> FALSE, value |-> NaN]}
        ELSE {[raised |-> FALSE, value |-> valid_z[idx]] :
                idx \in cKDTreeQuery(pts, <<user_lat, user_lon>>)}

\* mutant: the two branches return the same flag
aqi_at_location_never_flagged(user_lat, user_lon, lat_g, lon_g, z_masked, poly) ==
    {[raised |-> r.raised, value |-> r.value, extrapolated |-> FALSE] :
        r \in get_nearest_kriging_value(user_lat, user_lon, lat_g, lon_g, z_masked)}

\* mutant: the containment test made on Point(user_lat, user_lon)
aqi_at_location_swapped(user_lat, user_lon, lat_g, lon_g, z_masked, poly) ==
    IF PolygonContains(poly, user_lat, user_lon)
    THEN {[raised |-> r.raised, value |-> r.value, extrapolated |-> FALSE] :
            r \in get_nearest_kriging_value(user_lat, user_lon, lat_g, lon_g, z_masked)}
    ELSE {[raised |-> r.raised, value |-> r.value, extrapolated |-> TRUE] :
            r \in get_nearest_kriging_value(user_lat, user_lon, lat_g, lon_g, z_masked)}

\* mutant: polygon.covers in place of polygon.contains
aqi_at_location_covers(user_lat, user_lon, lat_g, lon_g, z_masked, poly) ==
    IF Locate(poly, <<user_lon, user_lat>>) # "exterior"
    THEN {[raised |-> r.raised, value |-> r.value, extrapolated |-> FALSE] :
            r \in get_nearest_kriging_value(user_lat, user_lon, lat_g, lon_g, z_masked)}
    ELSE {[raised |-> r.raised, value |-> r.value, extrapolated |-> TRUE] :
            r \in get_nearest_kriging_value(user_lat, user_lon, lat_g, lon_g, z_masked)}

(***************************************************************************)
(* 5. get_aqi_at_location: [raised, value, extrapolated]                   *)
(***************************************************************************)
get_aqi_at_location(user_lat, user_lon, lat_g, lon_g, z_masked, poly) ==
    IF PolygonContains(poly, user_lon, user_lat)
    THEN {[raised |-> r.raised, value |-> r.value, extrapolated |-> FALSE] :
            r \in get_nearest_kriging_value(user_lat, user_lon, lat_g, lon_g, z_masked)}
    ELSE {[raised |-> r.raised, value |-> r.value, extrapolated |-> TRUE] :
            r \in get_nearest_kriging_value(user_lat, user_lon, lat_g, lon_g, z_masked)}

(***************************************************************************)
(* Inputs.                                                                 *)
(***************************************************************************)
\* (LAT_MIN, LAT_MAX, LON_MIN, LON_MAX), fixed by the application
delhi_bounds_tuple == <<0, 4, 0, 4>>

Resolutions == {1, 2}

\* candidate stations: three on corners of the bounding box (one above 999),
\* one in the middle, and one at the coordinate of the first
StationPool ==
    << [lat |-> 0, lon |-> 0, aqi |-> 50],
       [lat |-> 4, lon |-> 4, aqi |-> 1200],
       [lat |-> 0, lon |-> 4, aqi |-> 250],
       [lat |-> 2, lon |-> 2, aqi |-> 150],
       [lat |-> 0, lon |-> 0, aqi |-> 300] >>

SubBatch(S) ==
    MaskSelect(StationPool, [i \in 1..Len(StationPool) |-> i \in S])

Batches ==
    {SubBatch(S) : S \in {T \in SUBSET (1..Len(StationPool)) :
                             Cardinality(T) <= MaxStations}}

\* polygons as rings of <<lon, lat>>
PolyTriangle == << <<-1, -1>>, <<6, -1>>, <<-1, 6>> >>
PolyEdge == << <<0, -1>>, <<5, -1>>, <<5, 3>>, <<0, 3>> >>
PolySmall == << <<1, 1>>, <<3, 1>>, <<3, 3>>, <<1, 3>> >>
PolyConcave == << <<-1, -1>>, <<5, -1>>, <<5, 1>>, <<1, 1>>, <<1, 5>>, <<-1, 5>> >>
Polygons == {PolyTriangle, PolyEdge, PolySmall, PolyConcave}

\* query coordinates <<lat, lon>>: grid sites, points between them, points
\* on polygon edges, and points far away
QueryPoints ==
    { <<0, 0>>, <<4, 4>>, <<0, 4>>, <<2, 2>>, <<1, 3>>, <<3, 0>>, <<0, 3>>,
      <<40, -30>>, <<-25, 4>> }

\* what the kriging library may predict where no station lies
PredVals == {-20, 400, 1500}

\* two rows of the batch at one coordinate: the kriging matrix is singular
Degenerate(d) ==
    \E i, j \in 1..Len(d) : i # j /\ d[i].lat = d[j].lat /\ d[i].lon = d[j].lon

NoSolve == [outcome |-> "none", pred |-> <<>>]

\* the library's answer: which variogram model solves ("none": neither),
\* and the prediction per flattened site
Solvers(d, res) ==
    IF Len(d) < 3 \/ Degenerate(d) THEN {NoSolve}
    ELSE {NoSolve} \cup
         {[outcome |-> o, pred |-> p] :
             o \in {"linear", "spherical"}, p \in [1..(res * res) -> PredVals]}

NoQuery == [raised |-> FALSE, value |-> NaN, extrapolated |-> FALSE]
NoOutcome == [out |-> <<>>, err |-> ""]

NoAnswer == [asked |-> FALSE, q |-> <<>>, res |-> NoQuery, surface |-> 0, fetched |-> 0]

\* no dashboard session
AppIdle ==
    /\ apc = "off"
    /\ scriptRuns = 0
    /\ batch = 0
    /\ oracle = <<>>
    /\ heap = <<>>
    /\ kriging_output = <<>>
    /\ kriging_data = <<>>
    /\ answer = NoAnswer

\* no run_agent call
AgentIdle ==
    /\ agentPc = "off"
    /\ aqi_value = NaN
    /\ conditions_list = <<>>
    /\ forecast = <<>>
    /\ rec = <<>>
    /\ trend = <<>>
    /\ ctx = <<>>
    /\ agentErr = ""

\* a query thread that has not called get_aqi_at_location yet
IdleThread == [stage |-> "idle", q |-> <<>>, inside |-> FALSE, res |-> NoQuery]

\* no concurrent query under way, no tree built
QueriesIdle ==
    /\ thr = [t \in 1..MaxThreads |-> IdleThread]
    /\ treeBuilds = 0

Init ==
    /\ df \in Batches
    /\ polygon \in Polygons
    /\ resolution \in Resolutions
    /\ solver \in Solvers(df, resolution)
    /\ QueriesIdle
    /\ AppIdle
    /\ AgentIdle
    /\ pc = "call"
    /\ steps = <<>>
    /\ xs = <<>> /\ ys = <<>>
    /\ x_grid = <<>> /\ y_grid = <<>>
    /\ z = <<>>
    /\ lon_grid = <<>> /\ lat_grid = <<>>
    /\ out = <<>>
    /\ err = ""
    /\ runNo = 1
    /\ prev = NoOutcome
    /\ qry = <<>>
    /\ qres = NoQuery

(***************************************************************************)
(* 6. perform_kriging_correct, step by step.                               *)
(***************************************************************************)
\* mutant: the guard off by one
InsufficientStationsOffByOne(d) == Len(d) < 2

\* the guard against an insufficient station count
InsufficientStations(d) == Len(d) < 3

Guard ==
    /\ pc = "call"
    /\ IF InsufficientStations(df)
       THEN pc' = "raised" /\ err' = "ValueError"
       ELSE pc' = "project" /\ err' = err
    /\ UNCHANGED extVars /\ UNCHANGED <<df, polygon, resolution, solver, steps, xs, ys, x_grid,
                   y_grid, z, lon_grid, lat_grid, out, runNo, prev, qry, qres>>

\* values = df["aqi"].values.copy()
Values(d) == [i \in 1..Len(d) |-> d[i].aqi]

\* mutant: station coordinates nudged by process state that differs per call
ProjectStationsJittered ==
    /\ pc = "project"
    /\ xs' = [i \in 1..Len(df) |->
                transformer_to_utm(df[i].lon, df[i].lat)[1] + (runNo - 1)]
    /\ ys' = [i \in 1..Len(df) |-> transformer_to_utm(df[i].lon, df[i].lat)[2]]
    /\ steps' = Append(steps, "project")
    /\ pc' = "grid"
    /\ UNCHANGED extVars /\ UNCHANGED <<df, polygon, resolution, solver, x_grid, y_grid, z,
                   lon_grid, lat_grid, out, err, runNo, prev, qry, qres>>

\* xs, ys = transformer_to_utm.transform(df["lon"].values, df["lat"].values)
ProjectStations ==
    /\ pc = "project"
    /\ xs' = [i \in 1..Len(df) |-> transformer_to_utm(df[i].lon, df[i].lat)[1]]
    /\ ys' = [i \in 1..Len(df) |-> transformer_to_utm(df[i].lon, df[i].lat)[2]]
    /\ steps' = Append(steps, "project")
    /\ pc' = "grid"
    /\ UNCHANGED extVars /\ UNCHANGED <<df, polygon, resolution, solver, x_grid, y_grid, z,
                   lon_grid, lat_grid, out, err, runNo, prev, qry, qres>>

GenerateGrid ==
    /\ pc = "grid"
    /\ LET g == generate_utm_grid(delhi_bounds_tuple[1], delhi_bounds_tuple[2],
                                  delhi_bounds_tuple[3], delhi_bounds_tuple[4],
                                  resolution)
       IN  x_grid' = g[1] /\ y_grid' = g[2]
    /\ steps' = Append(steps, "grid")
    /\ pc' = "linear"
    /\ UNCHANGED extVars /\ UNCHANGED <<df, polygon, resolution, solver, xs, ys, z, lon_grid,
                   lat_grid, out, err, runNo, prev, qry, qres>>

\* OrdinaryKriging(xs, ys, values, exact_values).execute("grid", xpts, ypts)
\* when the model solves: one prediction per (ypts[r], xpts[c])
OrdinaryKrigingExecute(sx, sy, values, exact_values, xpts, ypts, pred) ==
    [r \in 1..Len(ypts) |->
        [c \in 1..Len(xpts) |->
            LET here == {i \in 1..Len(sx) : sx[i] = xpts[c] /\ sy[i] = ypts[r]}
            IN  IF exact_values /\ here # {}
                THEN Num(values[CHOOSE i \in here : TRUE])
                ELSE Num(pred[(r - 1) * Len(xpts) + c])]]

FirstRow(g) == g[1]
FirstColumn(g) == [r \in 1..Len(g) |-> g[r][1]]

\* mutant: no except branch, a failure of the primary attempt is final
KrigeLinearNoFallback ==
    /\ pc = "linear"
    /\ IF Len(x_grid) # 0 /\ solver.outcome = "linear"
       THEN /\ z' = OrdinaryKrigingExecute(xs, ys, Values(df), TRUE,
                        FirstRow(x_grid), FirstColumn(y_grid), solver.pred)
            /\ steps' = Append(steps, "linear:ok")
            /\ pc' = "clip"
            /\ err' = err
       ELSE /\ z' = z
            /\ steps' = Append(steps, "linear:failed")
            /\ pc' = "raised"
            /\ err' = "InterpolationFailure"
    /\ UNCHANGED extVars /\ UNCHANGED <<df, polygon, resolution, solver, xs, ys, x_grid, y_grid,
                   lon_grid, lat_grid, out, runNo, prev, qry, qres>>

\* mutant: the primary attempt made with exact_values=False
KrigeLinearInexact ==
    /\ pc = "linear"
    /\ IF Len(x_grid) # 0 /\ solver.outcome = "linear"
       THEN /\ z' = OrdinaryKrigingExecute(xs, ys, Values(df), FALSE,
                        FirstRow(x_grid), FirstColumn(y_grid), solver.pred)
            /\ steps' = Append(steps, "linear:ok")
            /\ pc' = "clip"
       ELSE /\ z' = z
            /\ steps' = Append(steps, "linear:failed")
            /\ pc' = "spherical"
    /\ UNCHANGED extVars /\ UNCHANGED <<df, polygon, resolution, solver, xs, ys, x_grid, y_grid,
                   lon_grid, lat_grid, out, err, runNo, prev, qry, qres>>

\* the primary attempt: variogram_model="linear", exact_values=True; with an
\* empty grid (resolution 0) x_grid[0] raises IndexError inside the try
KrigeLinear ==
    /\ pc = "linear"
    /\ IF Len(x_grid) # 0 /\ solver.outcome = "linear"
       THEN /\ z' = OrdinaryKrigingExecute(xs, ys, Values(df), TRUE,
                        FirstRow(x_grid), FirstColumn(y_grid), solver.pred)
            /\ steps' = Append(steps, "linear:ok")
            /\ pc' = "clip"
       ELSE /\ z' = z
            /\ steps' = Append(steps, "linear:failed")
            /\ pc' = "spherical"
    /\ UNCHANGED extVars /\ UNCHANGED <<df, polygon, resolution, solver, xs, ys, x_grid, y_grid,
                   lon_grid, lat_grid, out, err, runNo, prev, qry, qres>>

\* the except branch: variogram_model="spherical", exact_values left at the
\* library's default, which is True; with an empty grid x_grid[0] raises
\* IndexError again, and nothing catches it
KrigeSpherical ==
    /\ pc = "spherical"
    /\ IF Len(x_grid) # 0 /\ solver.outcome = "spherical"
       THEN /\ z' = OrdinaryKrigingExecute(xs, ys, Values(df), TRUE,
                        FirstRow(x_grid), FirstColumn(y_grid), solver.pred)
            /\ steps' = Append(steps, "spherical:ok")
            /\ pc' = "clip"
            /\ err' = err
       ELSE /\ z' = z
            /\ steps' = Append(steps, "spherical:failed")
            /\ pc' = "raised"
            /\ err' = IF Len(x_grid) = 0 THEN "IndexError"
                                         ELSE "InterpolationFailure"
    /\ UNCHANGED extVars /\ UNCHANGED <<df, polygon, resolution, solver, xs, ys, x_grid, y_grid,
                   lon_grid, lat_grid, out, runNo, prev, qry, qres>>

\* mutant: only the floor is applied
ClipFloorOnly ==
    /\ pc = "clip"
    /\ z' = [r \in 1..Len(z) |-> [c \in 1..Len(z[r]) |->
                IF IsNaN(z[r][c]) THEN z[r][c] ELSE Num(Max(0, z[r][c].v))]]
    /\ steps' = Append(steps, "clip")
    /\ pc' = "unproject"
    /\ UNCHANGED extVars /\ UNCHANGED <<df, polygon, resolution, solver, xs, ys, x_grid, y_grid,
                   lon_grid, lat_grid, out, err, runNo, prev, qry, qres>>

\* z = np.clip(z, 0, 999)
Clip ==
    /\ pc = "clip"
    /\ z' = [r \in 1..Len(z) |-> [c \in 1..Len(z[r]) |-> ClipValue(z[r][c], 0, 999)]]
    /\ steps' = Append(steps, "clip")
    /\ pc' = "unproject"
    /\ UNCHANGED extVars /\ UNCHANGED <<df, polygon, resolution, solver, xs, ys, x_grid, y_grid,
                   lon_grid, lat_grid, out, err, runNo, prev, qry, qres>>

\* lon_grid, lat_grid = transformer_to_latlon.transform(x_grid, y_grid)
Unproject ==
    /\ pc = "unproject"
    /\ lon_grid' = [r \in 1..Len(x_grid) |-> [c \in 1..Len(x_grid[r]) |->
                        transformer_to_latlon(x_grid[r][c], y_grid[r][c])[1]]]
    /\ lat_grid' = [r \in 1..Len(x_grid) |-> [c \in 1..Len(x_grid[r]) |->
                        transformer_to_latlon(x_grid[r][c], y_grid[r][c])[2]]]
    /\ steps' = Append(steps, "unproject")
    /\ pc' = "mask"
    /\ UNCHANGED extVars /\ UNCHANGED <<df, polygon, resolution, solver, xs, ys, x_grid, y_grid,
                   z, out, err, runNo, prev, qry, qres>>

\* np.where(mask, z, np.nan)
Where(mask, zz) ==
    [r \in 1..Len(zz) |-> [c \in 1..Len(zz[r]) |->
        IF mask[r][c] THEN zz[r][c] ELSE NaN]]

MaskAndReturn ==
    /\ pc = "mask"
    /\ LET mask == mask_grid_with_polygon(lon_grid, lat_grid, polygon)
       IN  out' = <<lon_grid, lat_grid, Where(mask, z)>>
    /\ steps' = Append(steps, "mask")
    /\ pc' = "returned"
    /\ UNCHANGED extVars /\ UNCHANGED <<df, polygon, resolution, solver, xs, ys, x_grid, y_grid,
                   z, lon_grid, lat_grid, err, runNo, prev, qry, qres>>

(***************************************************************************)
(* A point query against the returned grid, as the alert tab makes it:     *)
(* get_aqi_at_location(user_lat, user_lon, lat_grid, lon_grid, z_grid,     *)
(* polygon) with (lon_grid, lat_grid, z_grid) the returned triple.         *)
(***************************************************************************)
Query ==
    /\ pc = "returned"
    /\ \E q \in QueryPoints :
        \E r \in get_aqi_at_location(q[1], q[2], out[2], out[1], out[3], polygon) :
            /\ qry' = q
            /\ qres' = r
    /\ UNCHANGED extVars /\ UNCHANGED <<df, polygon, resolution, solver, pc, steps, xs, ys, x_grid,
                   y_grid, z, lon_grid, lat_grid, out, err, runNo, prev>>

(***************************************************************************)
(* The same call made again with the same inputs, in the same process.     *)
(***************************************************************************)
Rerun ==
    /\ pc \in {"returned", "raised"}
    /\ runNo < MaxRuns
    /\ prev' = [out |-> out, err |-> err]
    /\ runNo' = runNo + 1
    /\ pc' = "call"
    /\ steps' = <<>>
    /\ xs' = <<>> /\ ys' = <<>>
    /\ x_grid' = <<>> /\ y_grid' = <<>>
    /\ z' = <<>>
    /\ lon_grid' = <<>> /\ lat_grid' = <<>>
    /\ out' = <<>>
    /\ err' = ""
    /\ qry' = <<>>
    /\ qres' = NoQuery
    /\ UNCHANGED extVars /\ UNCHANGED <<df, polygon, resolution, solver>>

Next ==
    \/ Guard
    \/ ProjectStations
    \/ GenerateGrid
    \/ KrigeLinear
    \/ KrigeSpherical
    \/ Clip
    \/ Unproject
    \/ MaskAndReturn
    \/ Query
    \/ Rerun

Spec == Init /\ [][Next]_vars

(***************************************************************************)
(* Concurrent point queries against one returned grid, over a wider range  *)
(* of resolutions.  Each thread makes one call of get_aqi_at_location and  *)
(* takes it in two steps: the containment test (krigging.py:94-97), then   *)
(* get_nearest_kriging_value, which flattens, filters, builds a cKDTree    *)
(* and queries it (krigging.py:60-81).                                     *)
(***************************************************************************)
QBatches == {SubBatch({1, 2, 3}), SubBatch({1, 3, 4}), SubBatch({1, 2})}

\* one fixed prediction per site, below 0 at the first site
PredPattern(res) == [k \in 1..(res * res) |-> 100 * k - 150]

QSolvers(d, res) ==
    IF Len(d) < 3 \/ Degenerate(d) THEN {NoSolve}
    ELSE {NoSolve} \cup
         {[outcome |-> o, pred |-> PredPattern(res)] : o \in {"linear", "spherical"}}

ThreadQueryPoints == { <<2, 2>>, <<3, 0>>, <<40, -30>> }

InitQ ==
    /\ df \in QBatches
    /\ polygon \in Polygons
    /\ resolution \in 0..MaxResolution
    /\ solver \in QSolvers(df, resolution)
    /\ QueriesIdle
    /\ AppIdle
    /\ AgentIdle
    /\ pc = "call"
    /\ steps = <<>>
    /\ xs = <<>> /\ ys = <<>>
    /\ x_grid = <<>> /\ y_grid = <<>>
    /\ z = <<>>
    /\ lon_grid = <<>> /\ lat_grid = <<>>
    /\ out = <<>>
    /\ err = ""
    /\ runNo = 1
    /\ prev = NoOutcome
    /\ qry = <<>>
    /\ qres = NoQuery

pipeVars == <<df, polygon, resolution, solver, pc, steps, xs, ys, x_grid,
              y_grid, z, lon_grid, lat_grid, out, err, runNo, prev, qry, qres>>

\* the call: get_aqi_at_location(user_lat, user_lon, lat_grid, lon_grid,
\* z_masked, polygon) on the returned triple
QStart(t) ==
    /\ pc = "returned"
    /\ thr[t].stage = "idle"
    /\ \E q \in ThreadQueryPoints :
          thr' = [thr EXCEPT ![t] = [@ EXCEPT !.stage = "called", !.q = q]]
    /\ UNCHANGED <<pipeVars, treeBuilds, appVars, agentVars>>

\* pt = Point(user_lon, user_lat); polygon.contains(pt)
QContains(t) ==
    /\ thr[t].stage = "called"
    /\ thr' = [thr EXCEPT ![t] =
                 [@ EXCEPT !.stage = "tested",
                           !.inside = PolygonContains(polygon, thr[t].q[2], thr[t].q[1])]]
    /\ UNCHANGED <<pipeVars, treeBuilds, appVars, agentVars>>

\* a tree is built in every call that finds a valid site
BuildsTree(zz) == \E rc \in (1..Len(zz)) \X (1..Cols(zz)) : ~IsNaN(zz[rc[1]][rc[2]])

\* mutant: the undefined sites are overwritten in the caller's array before
\* the search (an in-place np.nan_to_num)
QNearestInPlace(t) ==
    /\ thr[t].stage = "tested"
    /\ LET filled == [r \in 1..Len(out[3]) |-> [c \in 1..Len(out[3][r]) |->
                        IF IsNaN(out[3][r][c]) THEN Num(0) ELSE out[3][r][c]]]
       IN  /\ out' = <<out[1], out[2], filled>>
           /\ \E r \in get_nearest_kriging_value(thr[t].q[1], thr[t].q[2],
                                                 out[2], out[1], filled) :
                 thr' = [thr EXCEPT ![t] =
                           [@ EXCEPT !.stage = "done",
                                     !.res = [raised |-> r.raised, value |-> r.value,
                                              extrapolated |-> ~thr[t].inside]]]
    /\ treeBuilds' = treeBuilds + 1
    /\ UNCHANGED <<appVars, agentVars>>
    /\ UNCHANGED <<df, polygon, resolution, solver, pc, steps, xs, ys, x_grid,
                   y_grid, z, lon_grid, lat_grid, err, runNo, prev, qry, qres>>

\* aqi_val = get_nearest_kriging_value(...); return aqi_val, False / True
QNearest(t) ==
    /\ thr[t].stage = "tested"
    /\ \E r \in get_nearest_kriging_value(thr[t].q[1], thr[t].q[2],
                                          out[2], out[1], out[3]) :
          thr' = [thr EXCEPT ![t] =
                    [@ EXCEPT !.stage = "done",
                              !.res = [raised |-> r.raised, value |-> r.value,
                                       extrapolated |-> ~thr[t].inside]]]
    /\ treeBuilds' = treeBuilds + (IF BuildsTree(out[3]) THEN 1 ELSE 0)
    /\ UNCHANGED <<pipeVars, appVars, agentVars>>

NextQ ==
    \/ Guard
    \/ ProjectStations
    \/ GenerateGrid
    \/ KrigeLinear
    \/ KrigeSpherical
    \/ Clip
    \/ Unproject
    \/ MaskAndReturn
    \/ \E t \in 1..MaxThreads : QStart(t)
    \/ \E t \in 1..MaxThreads : QContains(t)
    \/ \E t \in 1..MaxThreads : QNearest(t)

SpecQuery == InitQ /\ [][NextQ]_vars

(***************************************************************************)
(* The dashboard script of app.py in one browser session.  Every rerun     *)
(* executes the script from the top: fetch_live_data (cached for 600 s),   *)
(* then the tabs in order, the SMS-alert tab before the kriging tab.  The  *)
(* script calls perform_kriging_correct and waits for it to return or      *)
(* raise.  Arrays are objects in a heap; the session state and the locals  *)
(* hold their ids.                                                         *)
(***************************************************************************)
\* resolution=200 (alert tab) and resolution=250 (kriging tab), scaled down
AlertResolution == 2
HeatmapResolution == 3

\* what the API can return: nothing, two solvable batches at the same
\* positions, a batch with a repeated position, a batch with one station
\* outside the boundary
AppBatches ==
    << <<>>, SubBatch({1, 3, 4}), SubBatch({3, 4, 5}), SubBatch({1, 3, 5}),
       SubBatch({1, 2, 3}) >>

AppPolygons == {PolyTriangle, PolyEdge}

AppQueryPoints == { <<2, 2>>, <<3, 0>>, <<40, -30>> }

\* gpd.clip(stations_gdf, delhi_polygon): the stations that intersect it
ClipStations(d, poly) ==
    MaskSelect(d, [i \in 1..Len(d) |-> Locate(poly, <<d[i].lon, d[i].lat>>) # "exterior"])

\* the clipped stations, or all of them if none is inside
aqi_data_to_display(raw, poly) ==
    IF Len(ClipStations(raw, poly)) = 0 THEN raw ELSE ClipStations(raw, poly)

Outcomes == {"linear", "spherical", "none"}

\* the batches the tabs pass on to perform_kriging_correct and pykrige can solve
Solvable(poly) ==
    {b \in 1..Len(AppBatches) :
        /\ Len(aqi_data_to_display(AppBatches[b], poly)) >= 3
        /\ ~Degenerate(aqi_data_to_display(AppBatches[b], poly))}

AppPred(b, res) == [k \in 1..(res * res) |-> 100 * b + 10 * k]

AppSolver(d, b, res) ==
    IF Len(d) < 3 \/ Degenerate(d) \/ oracle[b] = "none" THEN NoSolve
    ELSE [outcome |-> oracle[b], pred |-> AppPred(b, res)]

InitApp ==
    /\ polygon \in AppPolygons
    /\ oracle \in [Solvable(polygon) -> Outcomes]
    /\ apc = "idle"
    /\ scriptRuns = 0
    /\ batch = 0
    /\ heap = <<>>
    /\ kriging_output = <<>>
    /\ kriging_data = <<>>
    /\ answer = NoAnswer
    /\ QueriesIdle
    /\ AgentIdle
    /\ df = <<>>
    /\ resolution = AlertResolution
    /\ solver = NoSolve
    /\ pc = "nocall"
    /\ steps = <<>>
    /\ xs = <<>> /\ ys = <<>>
    /\ x_grid = <<>> /\ y_grid = <<>>
    /\ z = <<>>
    /\ lon_grid = <<>> /\ lat_grid = <<>>
    /\ out = <<>>
    /\ err = ""
    /\ runNo = 1
    /\ prev = NoOutcome
    /\ qry = <<>>
    /\ qres = NoQuery

\* perform_kriging_correct(d, delhi_bounds_tuple, polygon, res) is entered
CallKriging(d, res) ==
    /\ df' = d
    /\ resolution' = res
    /\ solver' = AppSolver(d, batch, res)
    /\ pc' = "call"
    /\ steps' = <<>>
    /\ xs' = <<>> /\ ys' = <<>>
    /\ x_grid' = <<>> /\ y_grid' = <<>>
    /\ z' = <<>>
    /\ lon_grid' = <<>> /\ lat_grid' = <<>>
    /\ out' = <<>>
    /\ err' = ""
    /\ UNCHANGED <<polygon, runNo, prev, qry, qres>>

KrigingDone == pc \in {"returned", "raised"}

\* the three arrays of a return value, as new objects
Allocate(h, o, b) ==
    h \o [i \in 1..3 |-> [val |-> o[i], run |-> (Len(h) \div 3) + 1, batch |-> b]]

NewTriple(h) == <<Len(h) + 1, Len(h) + 2, Len(h) + 3>>

\* a rerun starts: aqi_data_raw = fetch_live_data(), from the cache or from
\* the API; an empty frame ends the run with the error page
ScriptRun ==
    /\ apc = "idle"
    /\ scriptRuns < MaxScriptRuns
    /\ scriptRuns' = scriptRuns + 1
    /\ \E b \in 1..Len(AppBatches) :
          /\ batch' = b
          /\ apc' = IF Len(AppBatches[b]) = 0 THEN "idle" ELSE "tab4"
    /\ UNCHANGED agentVars
    /\ UNCHANGED <<pipeVars, thr, treeBuilds, oracle, heap, kriging_output,
                   kriging_data, answer>>

\* render_alert_subscription_tab up to the call or the unpacking
AlertTabEnter ==
    /\ apc = "tab4"
    /\ LET d == aqi_data_to_display(AppBatches[batch], polygon)
       IN  IF kriging_output # <<>>
           THEN /\ kriging_data' = kriging_output
                /\ apc' = "tab4_button"
                /\ UNCHANGED pipeVars
           ELSE IF Len(d) < 3
           THEN /\ kriging_data' = <<>>
                /\ apc' = "tab6"
                /\ UNCHANGED pipeVars
           ELSE /\ kriging_data' = <<>>
                /\ apc' = "tab4_wait"
                /\ CallKriging(d, AlertResolution)
    /\ UNCHANGED agentVars
    /\ UNCHANGED <<thr, treeBuilds, scriptRuns, batch, oracle, heap,
                   kriging_output, answer>>

\* the call of the alert tab is over: store and go on, or report and return
AlertTabKriged ==
    /\ apc = "tab4_wait"
    /\ KrigingDone
    /\ IF pc = "returned"
       THEN /\ heap' = Allocate(heap, out, batch)
            /\ kriging_output' = NewTriple(heap)
            /\ kriging_data' = NewTriple(heap)
            /\ apc' = "tab4_button"
       ELSE /\ apc' = "tab6"
            /\ UNCHANGED <<heap, kriging_output, kriging_data>>
    /\ UNCHANGED agentVars
    /\ UNCHANGED <<pipeVars, thr, treeBuilds, scriptRuns, batch, oracle, answer>>

\* the button: not pressed in this run, or pressed with a location
AlertTabButton ==
    /\ apc = "tab4_button"
    /\ \/ answer' = answer
       \/ \E q \in AppQueryPoints :
            \E r \in get_aqi_at_location(q[1], q[2],
                        heap[kriging_data[2]].val, heap[kriging_data[1]].val,
                        heap[kriging_data[3]].val, polygon) :
                answer' = [asked |-> TRUE, q |-> q, res |-> r,
                           surface |-> heap[kriging_data[3]].batch,
                           fetched |-> batch]
    /\ apc' = "tab6"
    /\ UNCHANGED agentVars
    /\ UNCHANGED <<pipeVars, thr, treeBuilds, scriptRuns, batch, oracle, heap,
                   kriging_output, kriging_data>>

\* render_kriging_tab up to the call
KrigingTabEnter ==
    /\ apc = "tab6"
    /\ LET d == aqi_data_to_display(AppBatches[batch], polygon)
       IN  IF Len(d) < 3
           THEN /\ apc' = "idle"
                /\ UNCHANGED pipeVars
           ELSE /\ apc' = "tab6_wait"
                /\ CallKriging(d, HeatmapResolution)
    /\ UNCHANGED agentVars
    /\ UNCHANGED <<thr, treeBuilds, scriptRuns, batch, oracle, heap,
                   kriging_output, kriging_data, answer>>

\* mutant: a failed call drops the stored surface
KrigingTabKrigedClearing ==
    /\ apc = "tab6_wait"
    /\ KrigingDone
    /\ IF pc = "returned"
       THEN /\ heap' = Allocate(heap, out, batch)
            /\ kriging_output' = NewTriple(heap)
       ELSE /\ kriging_output' = <<>>
            /\ UNCHANGED heap
    /\ apc' = "idle"
    /\ UNCHANGED agentVars
    /\ UNCHANGED <<pipeVars, thr, treeBuilds, scriptRuns, batch, oracle,
                   kriging_data, answer>>

\* mutant: the new values are copied into the stored z array
KrigingTabKrigedInPlace ==
    /\ apc = "tab6_wait"
    /\ KrigingDone
    /\ IF pc = "returned"
       THEN IF kriging_output = <<>>
            THEN /\ heap' = Allocate(heap, out, batch)
                 /\ kriging_output' = NewTriple(heap)
            ELSE /\ heap' = [heap EXCEPT ![kriging_output[3]] =
                                [@ EXCEPT !.val = out[3], !.batch = batch]]
                 /\ UNCHANGED kriging_output
       ELSE UNCHANGED <<heap, kriging_output>>
    /\ apc' = "idle"
    /\ UNCHANGED agentVars
    /\ UNCHANGED <<pipeVars, thr, treeBuilds, scriptRuns, batch, oracle,
                   kriging_data, answer>>

\* the call of the kriging tab is over: store, or report the error
KrigingTabKriged ==
    /\ apc = "tab6_wait"
    /\ KrigingDone
    /\ IF pc = "returned"
       THEN /\ heap' = Allocate(heap, out, batch)
            /\ kriging_output' = NewTriple(heap)
       ELSE UNCHANGED <<heap, kriging_output>>
    /\ apc' = "idle"
    /\ UNCHANGED agentVars
    /\ UNCHANGED <<pipeVars, thr, treeBuilds, scriptRuns, batch, oracle,
                   kriging_data, answer>>

NextApp ==
    \/ ScriptRun
    \/ AlertTabEnter
    \/ AlertTabKriged
    \/ AlertTabButton
    \/ KrigingTabEnter
    \/ KrigingTabKriged
    \/ Guard
    \/ ProjectStations
    \/ GenerateGrid
    \/ KrigeLinear
    \/ KrigeSpherical
    \/ Clip
    \/ Unproject
    \/ MaskAndReturn

SpecApp == InitApp /\ [][NextApp]_vars

(***************************************************************************)
(* agent_logic.py: the rule-based recommendation engine.  A string is a    *)
(* sequence of characters; a dictionary is a function of its keys; a text  *)
(* of the knowledge base is named by the place it stands at.  A call that  *)
(* can raise gives a record [raised, value], raised = "" for a return.     *)
(***************************************************************************)
\* str.lower(), on the letters of the alphabet
LowerChar(c) ==
    CASE c = "A" -> "a"
       [] c = "B" -> "b"
       [] c = "C" -> "c"
       [] c = "D" -> "d"
       [] c = "E" -> "e"
       [] c = "F" -> "f"
       [] c = "G" -> "g"
       [] c = "H" -> "h"
       [] c = "I" -> "i"
       [] c = "J" -> "j"
       [] c = "K" -> "k"
       [] c = "L" -> "l"
       [] c = "M" -> "m"
       [] c = "N" -> "n"
       [] c = "O" -> "o"
       [] c = "P" -> "p"
       [] c = "Q" -> "q"
       [] c = "R" -> "r"
       [] c = "S" -> "s"
       [] c = "T" -> "t"
       [] c = "U" -> "u"
       [] c = "V" -> "v"
       [] c = "W" -> "w"
       [] c = "X" -> "x"
       [] c = "Y" -> "y"
       [] c = "Z" -> "z"
       [] OTHER -> c

Lower(s) == [i \in 1..Len(s) |-> LowerChar(s[i])]

IsSpace(c) == c = " "

\* str.strip(): leading and trailing whitespace removed
RECURSIVE StripLeft(_)
StripLeft(s) ==
    IF Len(s) > 0 /\ IsSpace(s[1]) THEN StripLeft(Tail(s)) ELSE s

RECURSIVE StripRight(_)
StripRight(s) ==
    IF Len(s) > 0 /\ IsSpace(s[Len(s)])
    THEN StripRight(SubSeq(s, 1, Len(s) - 1))
    ELSE s

Strip(s) == StripRight(StripLeft(s))

\* m in s, for strings
IsSubstring(m, s) ==
    \E i \in 0..(Len(s) - Len(m)) : SubSeq(s, i + 1, i + Len(m)) = m

\* an entry of the list that is not a string (it has no lower())
NotAString == << "<None>" >>

critical_conditions ==
    { <<"t", "r", "a", "n", "s", "p", "l", "a", "n", "t">>,
      <<"o", "r", "g", "a", "n", " ", "t", "r", "a", "n", "s", "p", "l", "a", "n", "t">>,
      <<"i", "m", "m", "u", "n", "o", "c", "o", "m", "p", "r", "o", "m", "i", "s", "e", "d">>,
      <<"i", "m", "m", "u", "n", "e", " ", "c", "o", "m", "p", "r", "o", "m", "i", "s", "e", "d">>,
      <<"c", "h", "e", "m", "o", "t", "h", "e", "r", "a", "p", "y">>,
      <<"c", "a", "n", "c", "e", "r", " ", "t", "r", "e", "a", "t", "m", "e", "n", "t">>,
      <<"h", "i", "v">>,
      <<"a", "i", "d", "s">>,
      <<"s", "e", "v", "e", "r", "e", " ", "i", "m", "m", "u", "n", "o", "d", "e", "f", "i", "c", "i", "e", "n", "c", "y">>,
      <<"m", "u", "l", "t", "i", "p", "l", "e", " ", "s", "e", "v", "e", "r", "e", " ", "c", "o", "n", "d", "i", "t", "i", "o", "n", "s">>,
      <<"i", "c", "u", " ", "p", "a", "t", "i", "e", "n", "t">>,
      <<"v", "e", "n", "t", "i", "l", "a", "t", "o", "r">> }

high_risk_conditions ==
    { <<"c", "o", "p", "d">>,
      <<"c", "h", "r", "o", "n", "i", "c", " ", "o", "b", "s", "t", "r", "u", "c", "t", "i", "v", "e", " ", "p", "u", "l", "m", "o", "n", "a", "r", "y">>,
      <<"e", "m", "p", "h", "y", "s", "e", "m", "a">>,
      <<"s", "e", "v", "e", "r", "e", " ", "a", "s", "t", "h", "m", "a">>,
      <<"h", "e", "a", "r", "t", " ", "d", "i", "s", "e", "a", "s", "e">>,
      <<"c", "a", "r", "d", "i", "o", "v", "a", "s", "c", "u", "l", "a", "r", " ", "d", "i", "s", "e", "a", "s", "e">>,
      <<"h", "e", "a", "r", "t", " ", "f", "a", "i", "l", "u", "r", "e">>,
      <<"c", "a", "r", "d", "i", "a", "c">>,
      <<"l", "u", "n", "g", " ", "c", "a", "n", "c", "e", "r">>,
      <<"p", "u", "l", "m", "o", "n", "a", "r", "y", " ", "f", "i", "b", "r", "o", "s", "i", "s">>,
      <<"c", "y", "s", "t", "i", "c", " ", "f", "i", "b", "r", "o", "s", "i", "s">>,
      <<"b", "r", "o", "n", "c", "h", "i", "e", "c", "t", "a", "s", "i", "s">>,
      <<"s", "t", "r", "o", "k", "e", " ", "h", "i", "s", "t", "o", "r", "y">>,
      <<"r", "e", "c", "e", "n", "t", " ", "s", "u", "r", "g", "e", "r", "y">>,
      <<"s", "e", "v", "e", "r", "e", " ", "c", "a", "r", "d", "i", "a", "c">> }

sensitive_conditions ==
    { <<"a", "s", "t", "h", "m", "a">>,
      <<"m", "i", "l", "d", " ", "a", "s", "t", "h", "m", "a">>,
      <<"a", "l", "l", "e", "r", "g", "i", "e", "s">>,
      <<"b", "r", "o", "n", "c", "h", "i", "t", "i", "s">>,
      <<"s", "i", "n", "u", "s">>,
      <<"r", "e", "s", "p", "i", "r", "a", "t", "o", "r", "y", " ", "i", "n", "f", "e", "c", "t", "i", "o", "n">>,
      <<"p", "n", "e", "u", "m", "o", "n", "i", "a">>,
      <<"a", "l", "l", "e", "r", "g", "y">>,
      <<"w", "h", "e", "e", "z", "e">>,
      <<"b", "r", "e", "a", "t", "h", "i", "n", "g", " ", "p", "r", "o", "b", "l", "e", "m">>,
      <<"l", "u", "n", "g", " ", "i", "s", "s", "u", "e">>,
      <<"h", "e", "a", "r", "t", " ", "c", "o", "n", "d", "i", "t", "i", "o", "n">> }

children_markers ==
    { <<"c", "h", "i", "l", "d">>,
      <<"c", "h", "i", "l", "d", "r", "e", "n">>,
      <<"k", "i", "d">>,
      <<"i", "n", "f", "a", "n", "t">>,
      <<"t", "o", "d", "d", "l", "e", "r">>,
      <<"b", "a", "b", "y">>,
      <<"u", "n", "d", "e", "r", " ", "1", "2">>,
      <<"a", "g", "e", " ", "0", "-", "1", "2">> }

teen_markers ==
    { <<"t", "e", "e", "n">>,
      <<"t", "e", "e", "n", "a", "g", "e", "r">>,
      <<"a", "d", "o", "l", "e", "s", "c", "e", "n", "t">>,
      <<"a", "g", "e", " ", "1", "3", "-", "1", "8">>,
      <<"y", "o", "u", "t", "h">>,
      <<"s", "t", "u", "d", "e", "n", "t">> }

pregnant_markers ==
    { <<"p", "r", "e", "g", "n", "a", "n", "t">>,
      <<"p", "r", "e", "g", "n", "a", "n", "c", "y">>,
      <<"e", "x", "p", "e", "c", "t", "i", "n", "g">>,
      <<"e", "x", "p", "e", "c", "t", "a", "n", "t">>,
      <<"g", "r", "a", "v", "i", "d">>,
      <<"p", "r", "e", "n", "a", "t", "a", "l">> }

elderly_markers ==
    { <<"e", "l", "d", "e", "r", "l", "y">>,
      <<"s", "e", "n", "i", "o", "r">>,
      <<"o", "l", "d", " ", "a", "g", "e">>,
      <<"a", "g", "e", "d">>,
      <<"6", "0", "+">>,
      <<"o", "v", "e", "r", " ", "6", "0">>,
      <<"g", "e", "r", "i", "a", "t", "r", "i", "c">> }

\* conditions_lower = [condition.lower().strip() for condition in health_conditions]
ConditionsLower(hc) == [i \in 1..Len(hc) |-> Strip(Lower(hc[i]))]

\* for condition in conditions_lower: for marker in markers: if marker in condition
AnyMatch(conds, markers) ==
    \E i \in 1..Len(conds) : \E m \in markers : IsSubstring(m, conds[i])

Profiles ==
    {"general", "children", "teens", "pregnant", "elderly", "sensitive",
     "high_risk", "critical"}

Returned(v) == [raised |-> "", value |-> v]
Raised(e) == [raised |-> e, value |-> <<>>]

\* mutant: the age groups are checked before pregnancy
risk_profile_children_first(health_conditions) ==
    IF Len(health_conditions) = 0 THEN Returned("general")
    ELSE IF \E i \in 1..Len(health_conditions) : health_conditions[i] = NotAString
    THEN Raised("AttributeError")
    ELSE LET c == ConditionsLower(health_conditions)
         IN  IF AnyMatch(c, critical_conditions) THEN Returned("critical")
             ELSE IF AnyMatch(c, children_markers) THEN Returned("children")
             ELSE IF AnyMatch(c, pregnant_markers) THEN Returned("pregnant")
             ELSE IF AnyMatch(c, teen_markers) THEN Returned("teens")
             ELSE IF AnyMatch(c, elderly_markers) THEN Returned("elderly")
             ELSE IF AnyMatch(c, high_risk_conditions) THEN Returned("high_risk")
             ELSE IF AnyMatch(c, sensitive_conditions) THEN Returned("sensitive")
             ELSE Returned("sensitive")

\* mutant: an unrecognised list falls back to the general profile
risk_profile_default_general(health_conditions) ==
    IF Len(health_conditions) = 0 THEN Returned("general")
    ELSE IF \E i \in 1..Len(health_conditions) : health_conditions[i] = NotAString
    THEN Raised("AttributeError")
    ELSE LET c == ConditionsLower(health_conditions)
         IN  IF AnyMatch(c, critical_conditions) THEN Returned("critical")
             ELSE IF AnyMatch(c, pregnant_markers) THEN Returned("pregnant")
             ELSE IF AnyMatch(c, children_markers) THEN Returned("children")
             ELSE IF AnyMatch(c, teen_markers) THEN Returned("teens")
             ELSE IF AnyMatch(c, elderly_markers) THEN Returned("elderly")
             ELSE IF AnyMatch(c, high_risk_conditions) THEN Returned("high_risk")
             ELSE IF AnyMatch(c, sensitive_conditions) THEN Returned("sensitive")
             ELSE Returned("general")

\* the list comprehension raises AttributeError at an entry without lower()
determine_risk_profile(health_conditions) ==
    IF Len(health_conditions) = 0 THEN Returned("general")
    ELSE IF \E i \in 1..Len(health_conditions) : health_conditions[i] = NotAString
    THEN Raised("AttributeError")
    ELSE LET c == ConditionsLower(health_conditions)
         IN  IF AnyMatch(c, critical_conditions) THEN Returned("critical")
             ELSE IF AnyMatch(c, pregnant_markers) THEN Returned("pregnant")
             ELSE IF AnyMatch(c, children_markers) THEN Returned("children")
             ELSE IF AnyMatch(c, teen_markers) THEN Returned("teens")
             ELSE IF AnyMatch(c, elderly_markers) THEN Returned("elderly")
             ELSE IF AnyMatch(c, high_risk_conditions) THEN Returned("high_risk")
             ELSE IF AnyMatch(c, sensitive_conditions) THEN Returned("sensitive")
             ELSE Returned("sensitive")

\* an AQI argument that is not a number (None)
NoneValue == [none |-> TRUE]

\* a <= n for a float a: false for NaN
LessEq(a, n) == ~IsNaN(a) /\ a.v <= n

\* a > n for a float a: false for NaN
Greater(a, n) == ~IsNaN(a) /\ a.v > n

\* mutant: the first threshold taken as exclusive
aqi_category_exclusive(a) ==
    IF a = NoneValue THEN Raised("TypeError")
    ELSE Returned(IF ~IsNaN(a) /\ a.v < 50 THEN "Good"
                  ELSE IF LessEq(a, 100) THEN "Moderate"
                  ELSE IF LessEq(a, 150) THEN "Unhealthy for Sensitive Groups"
                  ELSE IF LessEq(a, 200) THEN "Unhealthy"
                  ELSE IF LessEq(a, 300) THEN "Very Unhealthy"
                  ELSE IF LessEq(a, 400) THEN "Hazardous"
                  ELSE IF LessEq(a, 450) THEN "Severe"
                  ELSE "Severe+")

\* comparing None with a number raises TypeError
get_aqi_category(a) ==
    IF a = NoneValue THEN Raised("TypeError")
    ELSE Returned(IF LessEq(a, 50) THEN "Good"
                  ELSE IF LessEq(a, 100) THEN "Moderate"
                  ELSE IF LessEq(a, 150) THEN "Unhealthy for Sensitive Groups"
                  ELSE IF LessEq(a, 200) THEN "Unhealthy"
                  ELSE IF LessEq(a, 300) THEN "Very Unhealthy"
                  ELSE IF LessEq(a, 400) THEN "Hazardous"
                  ELSE IF LessEq(a, 450) THEN "Severe"
                  ELSE "Severe+")

\* dict.get(k, default)
DictGet(d, k, default) == IF k \in DOMAIN d THEN d[k] ELSE default

EntryKeys ==
    {"summary", "activities", "precautions", "health_implications", "delhi_specific"}

\* the texts of one (category, profile) entry, each named by its place
KBEntry(c, p) == [k \in EntryKeys |-> <<c, p, k>>]

KBCategory(c, lo, hi, profs) ==
    [k \in {"aqi_range", "color", "delhi_context"} \cup profs |->
        IF k = "aqi_range" THEN <<lo, hi>>
        ELSE IF k \in {"color", "delhi_context"} THEN <<c, k>>
        ELSE KBEntry(c, k)]

\* mutant: one entry is missing
knowledge_base_missing_entry ==
    "Good" :> KBCategory("Good", 0, 50, Profiles)
    @@ "Moderate" :> KBCategory("Moderate", 51, 100, Profiles)
    @@ "Unhealthy for Sensitive Groups" :>
          KBCategory("Unhealthy for Sensitive Groups", 101, 150, Profiles)
    @@ "Unhealthy" :> KBCategory("Unhealthy", 151, 200, Profiles)
    @@ "Very Unhealthy" :> KBCategory("Very Unhealthy", 201, 300, Profiles)
    @@ "Hazardous" :> KBCategory("Hazardous", 301, 400, Profiles)
    @@ "Severe" :> KBCategory("Severe", 401, 450, Profiles \ {"teens"})
    @@ "Severe+" :> KBCategory("Severe+", 451, 500, Profiles)

AQI_RULE_KNOWLEDGE_BASE ==
    "Good" :> KBCategory("Good", 0, 50, Profiles)
    @@ "Moderate" :> KBCategory("Moderate", 51, 100, Profiles)
    @@ "Unhealthy for Sensitive Groups" :>
          KBCategory("Unhealthy for Sensitive Groups", 101, 150, Profiles)
    @@ "Unhealthy" :> KBCategory("Unhealthy", 151, 200, Profiles)
    @@ "Very Unhealthy" :> KBCategory("Very Unhealthy", 201, 300, Profiles)
    @@ "Hazardous" :> KBCategory("Hazardous", 301, 400, Profiles)
    @@ "Severe" :> KBCategory("Severe", 401, 450, Profiles)
    @@ "Severe+" :> KBCategory("Severe+", 451, 500, Profiles)

\* one row of the urgency matrix
UrgencyRow(g, c, t, p, e, s, h, cr) ==
    [general |-> g, children |-> c, teens |-> t, pregnant |-> p, elderly |-> e,
     sensitive |-> s, high_risk |-> h, critical |-> cr]

urgency_matrix ==
    "Good" :> UrgencyRow("info", "info", "info", "info", "info", "info",
                         "info", "caution")
    @@ "Moderate" :> UrgencyRow("info", "caution", "caution", "caution",
                         "caution", "caution", "warning", "warning")
    @@ "Unhealthy for Sensitive Groups" :>
          UrgencyRow("caution", "warning", "warning", "warning", "warning",
                     "warning", "serious", "serious")
    @@ "Unhealthy" :> UrgencyRow("warning", "serious", "serious", "serious",
                         "serious", "serious", "critical", "critical")
    @@ "Very Unhealthy" :> UrgencyRow("serious", "critical", "critical",
                         "critical", "critical", "critical", "emergency",
                         "emergency")
    @@ "Hazardous" :> UrgencyRow("critical", "emergency", "emergency",
                         "emergency", "emergency", "emergency", "emergency",
                         "emergency")
    @@ "Severe" :> UrgencyRow("emergency", "emergency", "emergency",
                         "emergency", "emergency", "emergency", "emergency",
                         "emergency")
    @@ "Severe+" :> UrgencyRow("emergency", "emergency", "emergency",
                         "emergency", "emergency", "emergency", "emergency",
                         "emergency")

\* mutant: the general profile at Hazardous is given a lower level
urgency_level_dip(aqi_category, risk_profile) ==
    IF aqi_category = "Hazardous" /\ risk_profile = "general" THEN "warning"
    ELSE DictGet(DictGet(urgency_matrix, aqi_category, <<>>), risk_profile, "warning")

\* urgency_matrix.get(aqi_category, {}).get(risk_profile, "warning")
_get_urgency_level(aqi_category, risk_profile) ==
    DictGet(DictGet(urgency_matrix, aqi_category, <<>>), risk_profile, "warning")

DefaultSummary == << "Air quality information not available." >>

\* the response dictionary, or the exception of the first call that raises
get_personalized_recommendation(a, user_health_conditions) ==
    LET cat == get_aqi_category(a)
        prof == determine_risk_profile(user_health_conditions)
        category_data == DictGet(AQI_RULE_KNOWLEDGE_BASE, cat.value, <<>>)
        specific == DictGet(category_data, prof.value, <<>>)
        recommendation_data ==
            IF specific = <<>> THEN DictGet(category_data, "general", <<>>)
            ELSE specific
    IN  IF cat.raised # "" THEN Raised(cat.raised)
        ELSE IF prof.raised # "" THEN Raised(prof.raised)
        ELSE Returned(
            [aqi_value |-> a,
             aqi_category |-> cat.value,
             aqi_range |-> DictGet(category_data, "aqi_range", <<0, 0>>),
             color |-> DictGet(category_data, "color", <<"#000000">>),
             risk_profile |-> prof.value,
             health_conditions |-> user_health_conditions,
             delhi_context |-> DictGet(category_data, "delhi_context", <<>>),
             summary |-> DictGet(recommendation_data, "summary", DefaultSummary),
             recommended_activities |-> DictGet(recommendation_data, "activities", <<>>),
             precautions |-> DictGet(recommendation_data, "precautions", <<>>),
             health_implications |->
                 DictGet(recommendation_data, "health_implications", <<>>),
             delhi_specific |-> DictGet(recommendation_data, "delhi_specific", <<>>),
             timestamp |-> <<>>,
             urgency_level |-> _get_urgency_level(cat.value, prof.value)])


\* round(10 * s / n): the value to one decimal, in tenths
RoundTenths(s, n) == (20 * s + n) \div (2 * n)

RECURSIVE SumOf(_)
SumOf(f) == IF Len(f) = 0 THEN 0 ELSE f[1].v + SumOf(Tail(f))

MinOf(f) == CHOOSE m \in {f[i].v : i \in 1..Len(f)} : \A i \in 1..Len(f) : m <= f[i].v
MaxOf(f) == CHOOSE m \in {f[i].v : i \in 1..Len(f)} : \A i \in 1..Len(f) : m >= f[i].v

\* list.index(min): the first position of the minimum, from 0
MinIndex(f) == (CHOOSE i \in 1..Len(f) :
                   f[i].v = MinOf(f) /\ \A j \in 1..(i - 1) : f[j].v # MinOf(f)) - 1

_find_best_time_window(f) ==
    IF Len(f) = 0 THEN <<"No forecast available">>
    ELSE IF MinIndex(f) <= 3 THEN <<"Next", MinIndex(f) + 1, MinOf(f)>>
    ELSE IF MinIndex(f) <= 12 THEN <<"Around", MinIndex(f), MinOf(f)>>
    ELSE <<"Later today", MinIndex(f), MinOf(f)>>

\* sum() over an entry that is not a number, or None + 30, raises TypeError;
\* the average is compared as sum against n times the bound
get_aqi_trend_advice(current_aqi, forecasted_aqi) ==
    IF Len(forecasted_aqi) = 0
    THEN Returned([trend |-> "unknown", advice |-> <<"No forecast data available.">>])
    ELSE IF \E i \in 1..Len(forecasted_aqi) : forecasted_aqi[i] = NoneValue
    THEN Raised("TypeError")
    ELSE IF current_aqi = NoneValue THEN Raised("TypeError")
    ELSE LET n == Len(forecasted_aqi)
             s == SumOf(forecasted_aqi)
             tr == IF ~IsNaN(current_aqi) /\ s > (current_aqi.v + 30) * n
                   THEN "worsening"
                   ELSE IF ~IsNaN(current_aqi) /\ s < (current_aqi.v - 30) * n
                   THEN "improving"
                   ELSE "stable"
         IN  Returned([trend |-> tr,
                       current_aqi |-> current_aqi,
                       average_forecast |-> RoundTenths(s, n),
                       max_forecast |-> MaxOf(forecasted_aqi),
                       min_forecast |-> MinOf(forecasted_aqi),
                       advice |-> <<tr>>,
                       best_time_window |-> _find_best_time_window(forecasted_aqi)])

_get_government_measures(aqi_category) ==
    DictGet(
        "Good" :> <<"No restrictions", "Normal activities permitted">>
        @@ "Moderate" :> <<"Monitor air quality", "Sensitive groups advised caution">>
        @@ "Unhealthy for Sensitive Groups" :>
              <<"Construction dust control measures",
                "Vehicle pollution checks increased", "Public advisories issued">>
        @@ "Unhealthy" :>
              <<"Construction activities restricted",
                "Schools may declare pollution holidays",
                "Vehicle restrictions may be imposed",
                "Public health advisories active">>
        @@ "Very Unhealthy" :>
              <<"GRAP Stage 3 activated", "Schools closed or online classes",
                "Construction banned", "Vehicle restrictions in place",
                "Emergency health measures">>
        @@ "Hazardous" :>
              <<"GRAP Stage 4 activated", "Schools closed",
                "Construction completely banned",
                "Odd-even vehicle scheme possible",
                "Non-essential commercial activities restricted",
                "Emergency health services on alert">>
        @@ "Severe" :>
              <<"Full emergency measures", "Possible lockdown considerations",
                "All non-essential activities stopped",
                "Maximum vehicle restrictions", "Emergency health protocols">>
        @@ "Severe+" :>
              <<"Maximum emergency response", "Complete lockdown possible",
                "Only essential services operating",
                "Emergency evacuation advisories may be issued",
                "Full medical emergency protocols">>,
        aqi_category, <<"Monitor official announcements">>)

\* the groups of tips the list is made of
_get_delhi_local_tips(aqi_category, risk_profile) ==
    IF aqi_category \in {"Unhealthy", "Very Unhealthy", "Hazardous", "Severe", "Severe+"}
    THEN IF risk_profile \in {"pregnant", "children", "elderly", "high_risk", "critical"}
         THEN <<"base_tips", "delhi_tips", "relocation_tips">>
         ELSE <<"base_tips", "delhi_tips">>
    ELSE <<"base_tips">>

\* the if/elif chain as written: a later branch is tried only when the
\* earlier conditions are false
GrapStage(a) ==
    IF Greater(a, 200) THEN "Stage 3 - Severe"
    ELSE IF Greater(a, 300) THEN "Stage 4 - Severe+"
    ELSE IF Greater(a, 400) THEN "Stage 4 - Emergency"
    ELSE "Stage 1"

SeasonalNote(month) ==
    IF month \in {10, 11, 12, 1, 2} THEN <<"Winter pollution season">>
    ELSE IF month \in {6, 7, 8, 9} THEN <<"Monsoon season">>
    ELSE <<"Pre-summer period">>

\* month: datetime.datetime.now().month
get_delhi_specific_context(a, risk_profile, month) ==
    LET cat == get_aqi_category(a)
    IN  IF cat.raised # "" THEN Raised(cat.raised)
        ELSE Returned(
            [grap_stage |-> GrapStage(a),
             seasonal_context |-> SeasonalNote(month),
             typical_for_delhi |-> (~IsNaN(a) /\ a.v >= 150),
             medical_facilities |-> <<"respiratory", "cardiac", "pediatric", "maternity">>,
             emergency_numbers |-> <<"102", "1800-11-0099", "108">>,
             government_measures |-> _get_government_measures(cat.value),
             local_tips |-> _get_delhi_local_tips(cat.value, risk_profile)])

(***************************************************************************)
(* run_agent (app.py) on sample inputs.                                    *)
(***************************************************************************)
\* health conditions as a user types them
CondCOPD == <<"C", "O", "P", "D">>
CondChild == <<"c", "h", "i", "l", "d">>
CondAsthma == <<"A", "s", "t", "h", "m", "a">>
CondSevereAsthma == <<"s", "e", "v", "e", "r", "e", " ", "a", "s", "t", "h", "m", "a">>
CondPregnant == <<"P", "r", "e", "g", "n", "a", "n", "t">>
CondHIV == <<" ", "H", "I", "V", " ">>
CondTeenager == <<"t", "e", "e", "n", "a", "g", "e", "r">>
CondSenior == <<"s", "e", "n", "i", "o", "r">>
CondDiabetes == <<"d", "i", "a", "b", "e", "t", "e", "s">>
CondKidney == <<"k", "i", "d", "n", "e", "y">>

SampleConditions ==
    {CondCOPD, CondChild, CondAsthma, CondSevereAsthma, CondPregnant, CondHIV,
     CondTeenager, CondSenior, CondDiabetes, CondKidney}

RECURSIVE ListsUpTo(_, _)
ListsUpTo(S, n) ==
    IF n = 0 THEN {<<>>}
    ELSE ListsUpTo(S, n - 1) \cup
         {Append(l, e) : l \in {k \in ListsUpTo(S, n - 1) : Len(k) = n - 1}, e \in S}

ConditionLists == ListsUpTo(SampleConditions, MaxConditions)

\* the values at and next to the category thresholds, values out of range,
\* NaN and None
ThresholdAQIs ==
    {Num(v) : v \in {-5, 0, 50, 51, 100, 101, 150, 151, 200, 201, 300, 301,
                     400, 401, 450, 451, 500, 600}}
    \cup {NaN, NoneValue}

SampleForecasts ==
    { <<>>, <<Num(300), Num(400)>>, <<Num(40), Num(45), Num(20)>>,
      <<Num(120), NoneValue>> }

\* the highest value of each category
CategoryAQIs == {Num(v) : v \in {50, 100, 150, 200, 300, 400, 450, 500}}

AgentInputs ==
    ({Num(v) : v \in 0..MaxAQI} \X {<<>>} \X {<<>>})
    \cup (CategoryAQIs \X ConditionLists \X {<<>>})
    \cup (ThresholdAQIs \X ListsUpTo(SampleConditions, 1) \X {<<>>})
    \cup (ThresholdAQIs \X {<<NotAString>>, <<CondChild, NotAString>>} \X {<<>>})
    \cup ({Num(100), Num(350), NaN, NoneValue} \X {<<>>, <<CondChild>>} \X SampleForecasts)

InitAgent ==
    /\ \E inp \in AgentInputs :
          /\ aqi_value = inp[1]
          /\ conditions_list = inp[2]
          /\ forecast = inp[3]
    /\ agentPc = "start"
    /\ rec = <<>>
    /\ trend = <<>>
    /\ ctx = <<>>
    /\ agentErr = ""
    /\ QueriesIdle
    /\ AppIdle
    /\ polygon = PolyTriangle
    /\ df = <<>>
    /\ resolution = AlertResolution
    /\ solver = NoSolve
    /\ pc = "nocall"
    /\ steps = <<>>
    /\ xs = <<>> /\ ys = <<>>
    /\ x_grid = <<>> /\ y_grid = <<>>
    /\ z = <<>>
    /\ lon_grid = <<>> /\ lat_grid = <<>>
    /\ out = <<>>
    /\ err = ""
    /\ runNo = 1
    /\ prev = NoOutcome
    /\ qry = <<>>
    /\ qres = NoQuery

\* the dictionary built in the except branch
FallbackRecommendation(a, cat) ==
    [aqi_value |-> a,
     aqi_category |-> cat,
     summary |-> <<"Air quality information available.">>,
     precautions |-> <<"Monitor air quality", "Use protection when needed">>,
     recommended_activities |-> <<"Stay informed", "Follow guidelines">>,
     ai_powered |-> FALSE]

\* except Exception: st.error(...), then the fallback triple is built, which
\* calls get_aqi_category(aqi_value) again; an exception raised there leaves
\* run_agent
AgentExcept ==
    LET cat == get_aqi_category(aqi_value)
    IN  IF cat.raised # ""
        THEN /\ agentPc' = "raised"
             /\ agentErr' = cat.raised
             /\ UNCHANGED <<rec, trend, ctx>>
        ELSE /\ agentPc' = "returned"
             /\ agentErr' = ""
             /\ rec' = FallbackRecommendation(aqi_value, cat.value)
             /\ trend' = [trend |-> "unknown", advice |-> <<"Monitor conditions">>]
             /\ ctx' = [seasonal_context |-> <<"N/A">>]

\* rec = get_personalized_recommendation(aqi_value, conditions_list or [])
AgentRecommend ==
    /\ agentPc = "start"
    /\ LET r == get_personalized_recommendation(aqi_value, conditions_list)
       IN  IF r.raised # ""
           THEN AgentExcept
           ELSE /\ rec' = r.value
                /\ agentPc' = "trend"
                /\ UNCHANGED <<trend, ctx, agentErr>>
    /\ UNCHANGED <<aqi_value, conditions_list, forecast>>
    /\ UNCHANGED <<pipeVars, thr, treeBuilds, appVars>>

\* trend = get_aqi_trend_advice(aqi_value, forecast or [])
AgentTrend ==
    /\ agentPc = "trend"
    /\ LET r == get_aqi_trend_advice(aqi_value, forecast)
       IN  IF r.raised # ""
           THEN AgentExcept
           ELSE /\ trend' = r.value
                /\ agentPc' = "context"
                /\ UNCHANGED <<rec, ctx, agentErr>>
    /\ UNCHANGED <<aqi_value, conditions_list, forecast>>
    /\ UNCHANGED <<pipeVars, thr, treeBuilds, appVars>>

\* ctx = get_delhi_specific_context(aqi_value, rec.get("risk_profile", "general"));
\* return rec, trend, ctx
AgentContext ==
    /\ agentPc = "context"
    /\ \E month \in 1..12 :
          LET r == get_delhi_specific_context(aqi_value,
                       DictGet(rec, "risk_profile", "general"), month)
          IN  IF r.raised # ""
              THEN AgentExcept
              ELSE /\ ctx' = r.value
                   /\ agentPc' = "returned"
                   /\ UNCHANGED <<rec, trend, agentErr>>
    /\ UNCHANGED <<aqi_value, conditions_list, forecast>>
    /\ UNCHANGED <<pipeVars, thr, treeBuilds, appVars>>

NextAgent ==
    \/ AgentRecommend
    \/ AgentTrend
    \/ AgentContext

SpecAgent == InitAgent /\ [][NextAgent]_vars

(***************************************************************************)
(* Properties.                                                             *)
(***************************************************************************)
Count(log, S) == Cardinality({i \in 1..Len(log) : log[i] \in S})

\* the sites <<r, c>> of a grid given as rows
SitesOf(g) == {rc \in (1..Len(g)) \X (1..Cols(g)) : TRUE}

\* the sites of the returned grid that carry a value
ValidSites == {rc \in SitesOf(out[3]) : ~IsNaN(out[3][rc[1]][rc[2]])}

\* the geographic coordinate <<lat, lon>> of a site of the returned grid
SiteLatLon(rc) == <<out[2][rc[1]][rc[2]], out[1][rc[1]][rc[2]]>>

Queried == Len(qry) = 2

\* where the queried coordinate lies relative to the polygon
QueryPlace == Locate(polygon, <<qry[2], qry[1]>>)

KrigingSteps == {"linear:ok", "linear:failed", "spherical:ok", "spherical:failed"}

\* C1: a call with 0, 1 or 2 station rows raises ValueError, returns no
\* grid, and has taken no projection, grid or kriging step before raising.
C1_InsufficientRejected ==
    (Len(df) < 3 /\ pc # "call") =>
        /\ pc = "raised"
        /\ err = "ValueError"
        /\ steps = <<>>
        /\ out = <<>>

C1_Witness == Len(df) = 2 /\ pc = "raised" /\ err = "ValueError"

\* C2: the extrapolated flag of a point query is true for a coordinate
\* strictly outside the polygon and false for one strictly inside it.
C2_FlagMatchesPlace ==
    Queried =>
        /\ QueryPlace = "exterior" => qres.extrapolated
        /\ QueryPlace = "interior" => ~qres.extrapolated

C2_Witness ==
    /\ Queried
    /\ QueryPlace = "interior"
    /\ ValidSites # {}
    /\ ~qres.extrapolated
    /\ ~IsNaN(qres.value)

\* C3: with at least one valid site, a point query returns the value of a
\* valid site that no other valid site is nearer to the queried coordinate
\* than (brute force over the returned grid); never an undefined value.
C3_NearestValidSite ==
    (Queried /\ ValidSites # {}) =>
        /\ ~qres.raised
        /\ ~IsNaN(qres.value)
        /\ \E s \in ValidSites :
              /\ qres.value = out[3][s[1]][s[2]]
              /\ \A t \in ValidSites :
                    Dist2(SiteLatLon(s), qry) <= Dist2(SiteLatLon(t), qry)

C3_Witness ==
    /\ Queried
    /\ qry = <<40, -30>>
    /\ Cardinality(ValidSites) >= 2
    /\ ValidSites # SitesOf(out[3])
    /\ \E s, t \in ValidSites : out[3][s[1]][s[2]] # out[3][t[1]][t[2]]
    /\ ~IsNaN(qres.value)

\* C4: in the returned grid a site carries a value if and only if the
\* polygon contains its geographic coordinate.
C4_DefinedIffContained ==
    pc = "returned" =>
        \A rc \in SitesOf(out[3]) :
            ~IsNaN(out[3][rc[1]][rc[2]])
                <=> Locate(polygon, <<out[1][rc[1]][rc[2]], out[2][rc[1]][rc[2]]>>)
                        = "interior"

C4_Witness ==
    /\ pc = "returned"
    /\ ValidSites # {}
    /\ \E rc \in SitesOf(out[3]) \ ValidSites :
          Locate(polygon, <<out[1][rc[1]][rc[2]], out[2][rc[1]][rc[2]]>>) = "boundary"
    /\ \E rc \in SitesOf(out[3]) \ ValidSites :
          Locate(polygon, <<out[1][rc[1]][rc[2]], out[2][rc[1]][rc[2]]>>) = "exterior"

\* C5: every defined value of the returned grid lies in [0, 999], on the
\* linear and on the spherical path.
C5_ValuesClamped ==
    pc = "returned" =>
        \A rc \in ValidSites :
            /\ 0 <= out[3][rc[1]][rc[2]].v
            /\ out[3][rc[1]][rc[2]].v <= 999

\* a returned grid of the fallback path in which both ends of the range
\* were applied
C5_Witness ==
    /\ pc = "returned"
    /\ Count(steps, {"spherical:ok"}) = 1
    /\ \E rc \in ValidSites : out[3][rc[1]][rc[2]] = Num(999)
    /\ \E rc \in ValidSites : out[3][rc[1]][rc[2]] = Num(0)

\* C6: with no valid site in the grid a point query returns the undefined
\* value and does not raise, wherever the queried coordinate lies.
C6_NoValidSiteIsUndefined ==
    (Queried /\ ValidSites = {}) =>
        /\ ~qres.raised
        /\ IsNaN(qres.value)

C6_Witness ==
    /\ Queried
    /\ ValidSites = {}
    /\ SitesOf(out[3]) # {}
    /\ IsNaN(qres.value)
    /\ ~qres.raised

\* C7: once the kriging stage is over, the primary model was attempted
\* exactly once; the fallback was attempted exactly once if the primary
\* attempt failed and not at all if it succeeded; and the call ends in an
\* interpolation failure exactly when both attempts failed.
KrigingOver ==
    \/ pc \in {"clip", "unproject", "mask", "returned"}
    \/ pc = "raised" /\ err # "ValueError"

C7_FallbackOnce ==
    KrigingOver =>
        /\ Count(steps, {"linear:ok", "linear:failed"}) = 1
        /\ Count(steps, {"linear:ok"}) = 1 =>
              Count(steps, {"spherical:ok", "spherical:failed"}) = 0
        /\ Count(steps, {"linear:failed"}) = 1 =>
              Count(steps, {"spherical:ok", "spherical:failed"}) = 1
        /\ (pc = "raised" /\ err = "InterpolationFailure")
              <=> (Count(steps, {"linear:failed"}) = 1
                     /\ Count(steps, {"spherical:failed"}) = 1)

C7_Witness ==
    /\ pc = "returned"
    /\ steps[3] = "linear:failed"
    /\ steps[4] = "spherical:ok"

\* the sites of the prediction that coincide with station i in the plane
StationSites(i) ==
    {rc \in SitesOf(z) : x_grid[rc[1]][rc[2]] = xs[i] /\ y_grid[rc[1]][rc[2]] = ys[i]}

Clipped == pc \in {"unproject", "mask", "returned"}

\* C8 as stated: for a batch of at least 3 stations at distinct positions
\* the prediction at a site that coincides with a station equals the
\* station's observed value.
C8_ExactAtStations ==
    (Clipped /\ ~Degenerate(df)) =>
        \A i \in 1..Len(df) : \A rc \in StationSites(i) :
            z[rc[1]][rc[2]] = Num(df[i].aqi)

\* C8 amended: the prediction at such a site equals the station's observed
\* value clamped into [0, 999], so the observed value itself when that lies
\* in [0, 999]; the returned grid carries it where the polygon contains the
\* site and is undefined there otherwise.
C8_ExactUpToClamp ==
    (Clipped /\ ~Degenerate(df)) =>
        \A i \in 1..Len(df) : \A rc \in StationSites(i) :
            /\ z[rc[1]][rc[2]] = ClipValue(Num(df[i].aqi), 0, 999)
            /\ (0 <= df[i].aqi /\ df[i].aqi <= 999) =>
                  z[rc[1]][rc[2]] = Num(df[i].aqi)
            /\ pc = "returned" =>
                  out[3][rc[1]][rc[2]] =
                      IF PolygonContains(polygon, out[1][rc[1]][rc[2]],
                                         out[2][rc[1]][rc[2]])
                      THEN z[rc[1]][rc[2]] ELSE NaN

\* a grid of the fallback path with a station of value 250 on a valid site
\* and a station above 999 on another site
C8_Witness ==
    /\ pc = "returned"
    /\ Count(steps, {"spherical:ok"}) = 1
    /\ \E i \in 1..Len(df) : \E rc \in StationSites(i) :
          df[i].aqi = 250 /\ out[3][rc[1]][rc[2]] = Num(250)
    /\ \E i \in 1..Len(df) : \E rc \in StationSites(i) :
          df[i].aqi > 999 /\ z[rc[1]][rc[2]] = Num(999)

ThreeNonCollinear(d) ==
    \E i, j, k \in 1..Len(d) :
        Cross(<<d[i].lon, d[i].lat>>, <<d[j].lon, d[j].lat>>,
              <<d[k].lon, d[k].lat>>) # 0

\* C10 as stated: a batch without 3 distinct, non-collinear positions is
\* rejected before interpolation is attempted: no kriging attempt is made
\* and no grid is returned.
C10_DegenerateRejectedFirst ==
    ~ThreeNonCollinear(df) =>
        /\ Count(steps, KrigingSteps) = 0
        /\ pc # "returned"


(***************************************************************************)
(* Resolution and grid shape (SpecQuery).                                  *)
(***************************************************************************)
GridBuilt == Count(steps, {"grid"}) = 1

IsSquare(g, n) == Len(g) = n /\ \A r \in 1..n : Len(g[r]) = n

\* C11: with a resolution below 2 no grid is built and none is returned, and
\* the call ends with the error InvalidResolution.
C11_SmallResolutionRejected ==
    (resolution < 2 /\ Len(df) >= 3) =>
        /\ Len(x_grid) = 0 /\ Len(y_grid) = 0
        /\ pc # "returned"
        /\ pc = "raised" => err = "InvalidResolution"

\* C12: for every resolution N >= 2, generate_utm_grid gives two N x N
\* arrays, and a call that returns gives three N x N arrays.
C12_GridShape ==
    resolution >= 2 =>
        /\ GridBuilt => IsSquare(x_grid, resolution) /\ IsSquare(y_grid, resolution)
        /\ pc = "returned" =>
              /\ Len(out) = 3
              /\ \A i \in 1..3 : IsSquare(out[i], resolution)

C12_Witness == pc = "returned" /\ resolution = MaxResolution

(***************************************************************************)
(* Point queries (SpecQuery).                                              *)
(***************************************************************************)
\* C16: over any sequence of point queries against one returned grid, the
\* nearest-neighbour tree is built at most once.
C16_IndexBuiltOnce == treeBuilds <= 1

\* the triple as perform_kriging_correct returned it
ReturnedGrid ==
    <<lon_grid, lat_grid,
      Where(mask_grid_with_polygon(lon_grid, lat_grid, polygon), z)>>

ThreadDone(t) == thr[t].stage = "done"

\* C17: a step of a point query leaves lat_grid, lon_grid, z_masked and the
\* polygon as they were, and under every interleaving each query ends with a
\* result the same call has when made alone on the grid as returned.
C17_QueriesReadOnly ==
    /\ [][thr' # thr => UNCHANGED <<out, polygon, lon_grid, lat_grid, z>>]_vars
    /\ [](\A t \in 1..MaxThreads :
            ThreadDone(t) =>
                thr[t].res \in get_aqi_at_location(thr[t].q[1], thr[t].q[2],
                                   ReturnedGrid[2], ReturnedGrid[1],
                                   ReturnedGrid[3], polygon))

\* two queries in flight at once, one between its two steps while the other
\* has finished
C17_Witness ==
    /\ thr[1].stage = "tested"
    /\ ThreadDone(2)
    /\ thr[1].q # thr[2].q
    /\ ValidSites # {}


(***************************************************************************)
(* Queries at grid sites and on the polygon boundary (Spec).               *)
(***************************************************************************)
\* the valid sites of the returned grid that lie at the queried coordinate
SitesAtQuery == {s \in ValidSites : SiteLatLon(s) = qry}

\* C19: a query at the geographic coordinate of a valid grid site returns
\* that site's own value, not flagged as extrapolated.
C19_SiteQueryOwnValue ==
    (Queried /\ SitesAtQuery # {}) =>
        /\ ~qres.raised
        /\ ~qres.extrapolated
        /\ \A s \in SitesAtQuery : qres.value = out[3][s[1]][s[2]]

\* a valid site off the diagonal is queried while another valid site carries
\* a different value
C19_Witness ==
    /\ Queried
    /\ qry[1] # qry[2]
    /\ SitesAtQuery # {}
    /\ \E s \in SitesAtQuery, t \in ValidSites :
          out[3][s[1]][s[2]] # out[3][t[1]][t[2]]
    /\ ~qres.extrapolated

SitePlace(rc) == Locate(polygon, <<out[1][rc[1]][rc[2]], out[2][rc[1]][rc[2]]>>)

IsVertex(poly, p) == \E i \in 1..Len(poly) : poly[i] = p

\* C20: a grid site lying on the polygon boundary is undefined in the
\* returned grid, and a query at a coordinate on the boundary is flagged as
\* extrapolated.
C20_BoundaryIsOutside ==
    /\ pc = "returned" =>
          \A rc \in SitesOf(out[3]) :
              SitePlace(rc) = "boundary" => IsNaN(out[3][rc[1]][rc[2]])
    /\ (Queried /\ QueryPlace = "boundary") => qres.extrapolated

\* a site on an edge is masked out, and a query at a vertex is flagged
C20_Witness ==
    /\ Queried
    /\ IsVertex(polygon, <<qry[2], qry[1]>>)
    /\ qres.extrapolated
    /\ ValidSites # {}
    /\ \E rc \in SitesOf(out[3]) :
          /\ SitePlace(rc) = "boundary"
          /\ ~IsVertex(polygon, <<out[1][rc[1]][rc[2]], out[2][rc[1]][rc[2]]>>)
          /\ IsNaN(out[3][rc[1]][rc[2]])


(***************************************************************************)
(* The stored surface of the dashboard session (SpecApp).                  *)
(***************************************************************************)
Stored == kriging_output # <<>>

\* the station batch the stored surface was computed from
StoredBatch == heap[kriging_output[3]].batch

\* C13: a call that raised has returned no grid and leaves the stored
\* surface as it was; the stored surface changes only after a call has
\* returned, and then to the arrays that call returned.
C13_StoredOnlyAfterReturn ==
    /\ [](pc = "raised" => out = <<>>)
    /\ [][/\ pc = "raised" => kriging_output' = kriging_output
          /\ kriging_output' # kriging_output =>
                /\ pc = "returned"
                /\ \A i \in 1..3 : heap'[kriging_output'[i]].val = out[i]]_vars

\* the kriging tab has handled a failed call for a new batch, and the
\* surface of the earlier batch is still stored
C13_Witness ==
    /\ apc = "idle"
    /\ pc = "raised"
    /\ Stored
    /\ StoredBatch # batch

\* C14: every point query of the alert tab is answered from a surface
\* computed from the batch fetch_live_data returned in that run.
C14_NoStaleAnswer == answer.asked => answer.surface = answer.fetched

\* C15: whenever perform_kriging_correct is being run for a tab, no surface
\* is stored or the stored one was computed from a different batch.
C15_RecomputeOnlyOnChange ==
    apc \in {"tab4_wait", "tab6_wait"} => (~Stored \/ StoredBatch # batch)

\* three arrays allocated by one return, in the order lon, lat, z, of one shape
SameRun(t) ==
    /\ t = <<3 * heap[t[1]].run - 2, 3 * heap[t[1]].run - 1, 3 * heap[t[1]].run>>
    /\ \A i \in 1..3 :
          /\ heap[t[i]].run = heap[t[1]].run
          /\ heap[t[i]].batch = heap[t[1]].batch
          /\ Len(heap[t[i]].val) = Len(heap[t[1]].val)

\* C18: an array once allocated never changes, and the stored triple and
\* the triple the alert tab holds each consist of the three arrays of one
\* return of perform_kriging_correct.
C18_PublishedGridsIntact ==
    /\ [][\A i \in 1..Len(heap) : Len(heap') >= i /\ heap'[i] = heap[i]]_vars
    /\ [](\A t \in {kriging_output, kriging_data} : t # <<>> => SameRun(t))

\* the alert tab answered a query from the triple it holds, and a newer
\* triple has been stored since
C18_Witness ==
    /\ answer.asked
    /\ Stored
    /\ kriging_data # <<>>
    /\ kriging_output # kriging_data
    /\ apc = "idle"


(***************************************************************************)
(* The recommendation engine (SpecAgent).                                  *)
(***************************************************************************)
\* get_personalized_recommendation has just returned its dictionary
Recommended == agentPc = "trend" /\ "risk_profile" \in DOMAIN rec

\* some entry of the list has one of the markers in it, whatever its case
Mentions(markers) ==
    \E i \in 1..Len(conditions_list) : \E m \in markers :
        /\ conditions_list[i] # NotAString
        /\ IsSubstring(m, Lower(conditions_list[i]))

Reverse(l) == [i \in 1..Len(l) |-> l[Len(l) + 1 - i]]

\* C21: the profile of a list of conditions is that of the first group, in
\* the order critical, pregnant, children, teens, elderly, high_risk,
\* sensitive, of which some entry contains a marker, in any letter case,
\* and the list in reverse order has the same profile.
C21_ProfileByPriority ==
    (Recommended /\ conditions_list # <<>>) =>
        /\ Mentions(critical_conditions) => rec.risk_profile = "critical"
        /\ (~Mentions(critical_conditions) /\ Mentions(pregnant_markers))
              => rec.risk_profile = "pregnant"
        /\ (~Mentions(critical_conditions \cup pregnant_markers)
              /\ Mentions(children_markers)) => rec.risk_profile = "children"
        /\ (~Mentions(critical_conditions \cup pregnant_markers \cup children_markers)
              /\ Mentions(teen_markers)) => rec.risk_profile = "teens"
        /\ (~Mentions(critical_conditions \cup pregnant_markers \cup children_markers
                      \cup teen_markers)
              /\ Mentions(elderly_markers)) => rec.risk_profile = "elderly"
        /\ (~Mentions(critical_conditions \cup pregnant_markers \cup children_markers
                      \cup teen_markers \cup elderly_markers)
              /\ Mentions(high_risk_conditions)) => rec.risk_profile = "high_risk"
        /\ (~Mentions(critical_conditions \cup pregnant_markers \cup children_markers
                      \cup teen_markers \cup elderly_markers \cup high_risk_conditions)
              /\ Mentions(sensitive_conditions)) => rec.risk_profile = "sensitive"
        /\ determine_risk_profile(Reverse(conditions_list)).value = rec.risk_profile

\* a child entry before a capitalised pregnancy entry
C21_Witness ==
    /\ Recommended
    /\ conditions_list = <<CondChild, CondPregnant>>
    /\ rec.risk_profile = "pregnant"

AllMarkers ==
    critical_conditions \cup pregnant_markers \cup children_markers
    \cup teen_markers \cup elderly_markers \cup high_risk_conditions
    \cup sensitive_conditions

\* C22: the profile is one of the eight values; it is 'general' exactly for
\* the empty list, and 'sensitive' for a non-empty list without any marker.
C22_GeneralIffEmpty ==
    Recommended =>
        /\ rec.risk_profile \in Profiles
        /\ rec.risk_profile = "general" <=> conditions_list = <<>>
        /\ (conditions_list # <<>> /\ ~Mentions(AllMarkers))
              => rec.risk_profile = "sensitive"

\* a list whose only entry has no marker in it
C22_Witness ==
    /\ Recommended
    /\ conditions_list = <<CondDiabetes>>
    /\ ~Mentions(AllMarkers)
    /\ rec.risk_profile = "sensitive"

UrgencyRank(u) ==
    CASE u = "info" -> 0
      [] u = "caution" -> 1
      [] u = "warning" -> 2
      [] u = "serious" -> 3
      [] u = "critical" -> 4
      [] u = "emergency" -> 5

\* C23: with one more condition in the list, the urgency level is at least
\* what it is without it.
C23_MoreConditionsNeverLower ==
    Recommended =>
        \A e \in SampleConditions :
            UrgencyRank(get_personalized_recommendation(aqi_value,
                            Append(conditions_list, e)).value.urgency_level)
                >= UrgencyRank(rec.urgency_level)

IsNumber(a) == a # NoneValue /\ ~IsNaN(a)

\* the urgency level for the AQI value v and the profile of the state
UrgencyAt(v) == _get_urgency_level(get_aqi_category(Num(v)).value, rec.risk_profile)

\* C24: for the profile at hand the urgency level at any higher AQI value is
\* at least the one returned, and the general profile gets at most the level
\* returned.
C24_UrgencyMonotone ==
    (Recommended /\ IsNumber(aqi_value)) =>
        /\ UrgencyRank(UrgencyAt(aqi_value.v + 1)) >= UrgencyRank(rec.urgency_level)
        /\ \A b \in {t \in ThresholdAQIs : IsNumber(t)} :
              b.v >= aqi_value.v =>
                  UrgencyRank(UrgencyAt(b.v)) >= UrgencyRank(rec.urgency_level)
        /\ UrgencyRank(get_personalized_recommendation(aqi_value, <<>>)
                           .value.urgency_level)
              <= UrgencyRank(rec.urgency_level)

C24_Witness ==
    /\ Recommended
    /\ aqi_value = Num(200)
    /\ rec.risk_profile = "high_risk"
    /\ rec.urgency_level = "critical"
    /\ UrgencyAt(201) = "emergency"

Categories ==
    {"Good", "Moderate", "Unhealthy for Sensitive Groups", "Unhealthy",
     "Very Unhealthy", "Hazardous", "Severe", "Severe+"}

\* the categories whose declared aqi_range contains v
RangesHolding(v) ==
    {c \in DOMAIN AQI_RULE_KNOWLEDGE_BASE :
        /\ AQI_RULE_KNOWLEDGE_BASE[c].aqi_range[1] <= v
        /\ v <= AQI_RULE_KNOWLEDGE_BASE[c].aqi_range[2]}

\* C25: for an integer AQI value from 0 to 500 the category returned is one
\* of the eight names and is the one category whose declared range holds
\* the value.
C25_CategoryMatchesRange ==
    (Recommended /\ IsNumber(aqi_value) /\ aqi_value.v \in 0..MaxAQI) =>
        /\ rec.aqi_category \in Categories
        /\ RangesHolding(aqi_value.v) = {rec.aqi_category}
        /\ rec.aqi_range[1] <= aqi_value.v /\ aqi_value.v <= rec.aqi_range[2]

C25_Witness ==
    /\ Recommended
    /\ aqi_value = Num(50)
    /\ rec.aqi_category = "Good"

\* C26: the texts of the recommendation are those of the entry of its own
\* category and profile, and the urgency level is an entry of the matrix.
C26_KnowledgeBaseComplete ==
    Recommended =>
        /\ rec.summary = <<rec.aqi_category, rec.risk_profile, "summary">>
        /\ rec.precautions = <<rec.aqi_category, rec.risk_profile, "precautions">>
        /\ rec.summary # DefaultSummary
        /\ rec.aqi_category \in DOMAIN urgency_matrix
        /\ rec.risk_profile \in DOMAIN urgency_matrix[rec.aqi_category]
        /\ rec.urgency_level = urgency_matrix[rec.aqi_category][rec.risk_profile]

C26_Witness ==
    /\ Recommended
    /\ rec.aqi_category = "Severe"
    /\ rec.risk_profile = "teens"
    /\ rec.summary = <<"Severe", "teens", "summary">>

\* the run_agent call is over and gave the context of get_delhi_specific_context
ContextGiven == agentPc = "returned" /\ "grap_stage" \in DOMAIN ctx

\* C27: the GRAP stage is Stage 1 up to 200, Stage 3 above 200 up to 300,
\* Stage 4 - Severe+ above 300 up to 400, Stage 4 - Emergency above 400.
C27_GrapStageByRange ==
    (ContextGiven /\ IsNumber(aqi_value)) =>
        ctx.grap_stage =
            IF aqi_value.v <= 200 THEN "Stage 1"
            ELSE IF aqi_value.v <= 300 THEN "Stage 3 - Severe"
            ELSE IF aqi_value.v <= 400 THEN "Stage 4 - Severe+"
            ELSE "Stage 4 - Emergency"

\* C28: run_agent never ends with an exception, and the recommendation it
\* returns has every key its callers read without a default.
C28_RunAgentNeverRaises ==
    /\ agentPc # "raised"
    /\ agentPc = "returned" =>
          {"aqi_value", "aqi_category", "summary", "precautions",
           "recommended_activities"} \subseteq DOMAIN rec

====
